---- MODULE Spec2Model ----
(***************************************************************************)
(* Model of the Redis-backed storage adapter RedisDatabase                 *)
(* (src/src/redis/redis_database.rs).                                      *)
(*                                                                         *)
(* The adapter holds a client handle and a configured TTL.  Every storage  *)
(* operation (get, exists, insert, remove, ttl) is a short sequence of     *)
(* execute_command calls; each execute_command opens a connection, sends   *)
(* one command and decodes the reply.  The store executes one command at a *)
(* time, so one execute_command is one step of the model; other callers    *)
(* and the passage of time interleave between the steps of a call.         *)
(*                                                                         *)
(* Durations and remaining lifetimes are counted in milliseconds; time     *)
(* advances in ticks of MsPerTick milliseconds.                            *)
(***************************************************************************)
EXTENDS Integers, Sequences, FiniteSets, TLC

\* ------------------------------------------------------------------ bounds
\* Clock resolution of the model: ticks per second.
TicksPerSec == 4
\* Largest configured TTL the constructor is given, in ticks.
MaxTtlTicks == 5

MsPerTick == 1000 \div TicksPerSec

\* --------------------------------------------------------------- constants
\* The callers that may hold a handle of the adapter (RedisDatabase is Clone).
Callers == {"c1", "c2"}

\* Keys of the tests: "key" is written, "bad" is the other key.
Keys == {"key", "bad"}

\* Tables: FooTable is the table of the tests (Value = OwnedValue = Foo).
\* MapTable is a second table over the same store whose value type is a map
\* with non-string keys: its strings do not decode as Foo and the other way
\* round, and its non-empty values do not encode.
Tables == {"FooTable", "MapTable"}

Foo(n) == [type |-> "Foo", bar |-> n]
MapValue(n) == [type |-> "Map", bar |-> n]

\* The values a caller passes to insert, per table.
ValuesOf(table) ==
    IF table = "FooTable" THEN {Foo(42), Foo(69)}
    ELSE {MapValue(0), MapValue(1)}

\* ------------------------------------------------------------- JSON codec
Digit(d) == <<"0", "1", "2", "3", "4", "5", "6", "7", "8", "9">>[d + 1]

DigitValue(c) ==
    CASE c = "0" -> 0 [] c = "1" -> 1 [] c = "2" -> 2 [] c = "3" -> 3
      [] c = "4" -> 4 [] c = "5" -> 5 [] c = "6" -> 6 [] c = "7" -> 7
      [] c = "8" -> 8 [] c = "9" -> 9 [] OTHER -> -1

RECURSIVE NatToChars(_)
NatToChars(n) ==
    IF n < 10 THEN <<Digit(n)>>
    ELSE NatToChars(n \div 10) \o <<Digit(n % 10)>>

RECURSIVE CharsToNat(_)
\* -1 when s is not a JSON number: empty, a non-digit, a leading zero.  (The
\* numbers of the model stay far below 2^64, the u64 range check never fires.)
CharsToNat(s) ==
    IF Len(s) = 0 THEN -1
    ELSE IF Len(s) = 1 THEN DigitValue(s[1])
    ELSE IF s[1] = "0" THEN -1
    ELSE LET hi == CharsToNat(SubSeq(s, 1, Len(s) - 1))
             lo == DigitValue(s[Len(s)])
         IN IF hi < 0 \/ lo < 0 THEN -1 ELSE hi * 10 + lo

FooPrefix == <<"{", "\"", "b", "a", "r", "\"", ":">>
FooSuffix == <<"}">>

Ok(v) == [ok |-> TRUE, val |-> v]
Err == [ok |-> FALSE, val |-> <<>>]

\* An encoder that writes every map as the empty map.
ToJson_lossy(v) ==
    IF v.type = "Foo" THEN Ok(FooPrefix \o NatToChars(v.bar) \o FooSuffix)
    ELSE Ok(<<"{", "}">>)

\* serde_json::to_string(value): the JSON text as a sequence of characters,
\* or an error for a map whose keys are not strings.
ToJson(v) ==
    IF v.type = "Foo" THEN Ok(FooPrefix \o NatToChars(v.bar) \o FooSuffix)
    ELSE IF v.bar = 0 THEN Ok(<<"{", "}">>)
    ELSE Err

\* A decoder that falls back to a default value.
FromJson_default(table, s) ==
    IF table = "FooTable"
    THEN LET n == IF Len(s) > Len(FooPrefix) + Len(FooSuffix)
                     /\ SubSeq(s, 1, Len(FooPrefix)) = FooPrefix
                     /\ SubSeq(s, Len(s), Len(s)) = FooSuffix
                  THEN CharsToNat(SubSeq(s, Len(FooPrefix) + 1, Len(s) - 1))
                  ELSE -1
         IN IF n >= 0 THEN Ok(Foo(n)) ELSE Ok(Foo(0))
    ELSE Ok(MapValue(0))

\* serde_json::from_str::<T>(s) for the owned value type of the table.
FromJson(table, s) ==
    IF table = "FooTable"
    THEN LET n == IF Len(s) > Len(FooPrefix) + Len(FooSuffix)
                     /\ SubSeq(s, 1, Len(FooPrefix)) = FooPrefix
                     /\ SubSeq(s, Len(s), Len(s)) = FooSuffix
                  THEN CharsToNat(SubSeq(s, Len(FooPrefix) + 1, Len(s) - 1))
                  ELSE -1
         IN IF n >= 0 THEN Ok(Foo(n)) ELSE Err
    ELSE IF s = <<"{", "}">> THEN Ok(MapValue(0)) ELSE Err

\* ---------------------------------------------------------------- results
\* Result<_, RedisError>: Ok(val) or one of the four errors of RedisError;
\* SerializeError and DeserializeError carry the key.
OkR(v) == [kind |-> "Ok", key |-> "", val |-> v]
ConnectionError == [kind |-> "ConnectionError", key |-> "", val |-> <<>>]
QueryError == [kind |-> "QueryError", key |-> "", val |-> <<>>]
SerializeError(k) == [kind |-> "SerializeError", key |-> k, val |-> <<>>]
DeserializeError(k) == [kind |-> "DeserializeError", key |-> k, val |-> <<>>]
NoResult == [kind |-> "None", key |-> "", val |-> <<>>]

\* Option<T>: None is the empty sequence, Some(v) the one-element sequence.
None == <<>>
Some(v) == <<v>>

\* ---------------------------------------------------------------- Duration
\* A Duration is a number of milliseconds.

\* A conversion that takes the seconds for milliseconds.
from_secs_as_millis(s) == s

\* Duration::from_secs
from_secs(s) == s * 1000
\* Duration::as_secs: the whole seconds of a Duration.
as_secs(d) == d \div 1000

\* The Durations the constructor is given: 0 .. MaxTtlTicks ticks.
Durations == {n * MsPerTick : n \in 0..MaxTtlTicks}

\* ------------------------------------------------------------------- store
\* The store maps a key to a string with a remaining lifetime in
\* milliseconds.  Every entry of the model is written by the adapter's set
\* command, so every entry has an expiry.
Absent == [present |-> FALSE, val |-> <<>>, exp |-> 0]
Entry(s, ms) == [present |-> TRUE, val |-> s, exp |-> ms]

\* The five commands, as the store executes them.
\* GET key: the string or nil.
CommandGet(st, k) == IF st[k].present THEN Some(st[k].val) ELSE None
\* EXISTS key.
CommandExists(st, k) == st[k].present
\* TTL key: the remaining lifetime rounded to the nearest second, -2 for a
\* key that does not exist.  (test_ttl_returns_the_expected_ttl_value reads
\* 1 s back right after an insert with a TTL of 1 s: the store does not
\* truncate the remaining lifetime, which is already below 1000 ms then.)
CommandTtl(st, k) ==
    IF st[k].present THEN (st[k].exp + 500) \div 1000 ELSE -2
\* The seconds a set command carries for a Duration.
SetSeconds(d) == as_secs(d)
\* SET key value EX seconds: the store rejects an expiry of 0 seconds.
SetAccepted(seconds) == seconds > 0
CommandSet(st, k, s, seconds) ==
    [st EXCEPT ![k] = Entry(s, seconds * 1000)]
\* DEL key: no error on a missing key.
CommandDelete(st, k) == [st EXCEPT ![k] = Absent]

\* A u64 read from an integer reply n.  A u64 is represented by the i64 of
\* the same bits, so a negative number n stands for 2^64 + n.  A negative
\* reply is either cast (n as u64) or refused, depending on the version of
\* the redis crate the build links.
FromRedisValueU64(n) ==
    IF n >= 0 THEN {Ok(n)} ELSE {Ok(n), Err}

\* -------------------------------------------------------------------- state
VARIABLES
    server,    \* whether the store can be reached: "up" or "down"
    self,      \* the adapter: [client, ttl, url]; client is "none" before new()
    store,     \* the store: key -> Absent or Entry
    pc,        \* per caller: where its call stands
    call,      \* per caller: [op, table, key, value] of the call in progress
    previous,  \* per caller: the local `previous` of insert and remove
    result,    \* per caller: what the finished call returned
    sent,      \* per caller: the commands the call has sent so far
    seen,      \* per caller: last[key] when the call started
    changed,   \* per caller: whether a command of the call changed the store
    execs,     \* per caller: the execute_command calls of the call so far
    last       \* per key: the last thing that happened to the key

vars == <<server, self, store, pc, call, previous, result, sent, seen, changed, execs, last>>

Urls == {"redis://:password@localhost:6379", "localhost"}
\* Client::open(url): the URL needs a redis scheme.
ClientOpen(url) == url = "redis://:password@localhost:6379"

Ops == {"get", "exists", "insert", "remove", "ttl"}

NoCall == [op |-> "none", table |-> "FooTable", key |-> "key", value |-> Foo(0)]

\* What last happened to a key through the adapter: never written, a
\* successful insert(table, value), a successful remove, the expiry of what
\* was inserted, or a call that failed after the store executed its command.
\* age is the time since the successful insert, counted up to the configured
\* TTL.
Never == [kind |-> "never", table |-> "FooTable", value |-> Foo(0), age |-> 0]
Removed == [kind |-> "removed", table |-> "FooTable", value |-> Foo(0), age |-> 0]
Unknown == [kind |-> "unknown", table |-> "FooTable", value |-> Foo(0), age |-> 0]
Inserted(table, v) == [kind |-> "insert", table |-> table, value |-> v, age |-> 0]

Init ==
    /\ server = "up"
    /\ self = [client |-> "none", ttl |-> 0, url |-> ""]
    /\ store = [k \in Keys |-> Absent]
    /\ pc = [p \in Callers |-> "idle"]
    /\ call = [p \in Callers |-> NoCall]
    /\ previous = [p \in Callers |-> None]
    /\ result = [p \in Callers |-> NoResult]
    /\ sent = [p \in Callers |-> <<>>]
    /\ seen = [p \in Callers |-> Never]
    /\ changed = [p \in Callers |-> FALSE]
    /\ execs = [p \in Callers |-> <<>>]
    /\ last = [k \in Keys |-> Never]

\* ---------------------------------------------------------------- commands
\* Command::get / exists / set / delete / ttl: the command descriptors.
Command_get(k) == [kind |-> "get", key |-> k, value |-> <<>>, seconds |-> 0]
Command_exists(k) == [kind |-> "exists", key |-> k, value |-> <<>>, seconds |-> 0]
Command_set(k, s, d) ==
    [kind |-> "set", key |-> k, value |-> s, seconds |-> SetSeconds(d)]
Command_delete(k) == [kind |-> "delete", key |-> k, value |-> <<>>, seconds |-> 0]
Command_ttl(k) == [kind |-> "ttl", key |-> k, value |-> <<>>, seconds |-> 0]

\* What the store does with a command it executes: whether it accepts it,
\* its reply, and the store afterwards.
Accepts(cmd) == cmd.kind = "set" => SetAccepted(cmd.seconds)
Reply(st, cmd) ==
    CASE cmd.kind = "get" -> CommandGet(st, cmd.key)
      [] cmd.kind = "exists" -> CommandExists(st, cmd.key)
      [] cmd.kind = "ttl" -> CommandTtl(st, cmd.key)
      [] OTHER -> "OK"
Apply(st, cmd) ==
    CASE cmd.kind = "set" -> CommandSet(st, cmd.key, cmd.value, cmd.seconds)
      [] cmd.kind = "delete" -> CommandDelete(st, cmd.key)
      [] OTHER -> st

\* How one execute_command can go:
\*   "conn"     get_connection fails, nothing is sent;
\*   "rejected" the store fails the command without executing it;
\*   "lost"     the store executes the command, the reply does not arrive
\*              (the connection times out or breaks while query waits);
\*   "ok"       the store executes the command and replies (with an error
\*              reply when it does not accept the command).
Outcomes == {"ok", "conn", "rejected", "lost"}

\* get_connection fails whenever the store cannot be reached.
Possible(srv) == IF srv = "up" THEN Outcomes ELSE {"conn"}

\* Whether the store executes the command.
Applied(cmd, o) == o \in {"ok", "lost"} /\ Accepts(cmd)

\* The record of one execute_command call: the command, the connection it
\* opened ("none" when get_connection failed; "released" once the local
\* `connection` is dropped, which every return of the function does), how
\* many commands were sent on that connection, and how the call ended.
Exec(cmd, o, res) ==
    [command |-> cmd.kind,
     connection |-> IF o = "conn" THEN "none" ELSE "released",
     sent |-> IF o = "conn" THEN 0 ELSE 1,
     res |-> res]

\* execute_command that sends a failed command a second time.
execute_command_retry(st, cmd, o) ==
    [res |-> IF o = "conn" THEN ConnectionError
             ELSE IF o = "ok" /\ Accepts(cmd) THEN OkR(Reply(st, cmd))
             ELSE QueryError,
     store |-> IF o \in {"ok", "lost"} /\ Accepts(cmd) THEN Apply(st, cmd) ELSE st,
     sent |-> IF o = "conn" THEN <<>>
              ELSE IF o = "ok" /\ Accepts(cmd) THEN <<cmd.kind>>
              ELSE <<cmd.kind, cmd.kind>>,
     exec |-> [command |-> cmd.kind,
               connection |-> IF o = "conn" THEN "none" ELSE "released",
               sent |-> IF o = "conn" THEN 0
                        ELSE IF o = "ok" /\ Accepts(cmd) THEN 1 ELSE 2,
               res |-> IF o = "conn" THEN "ConnectionError"
                       ELSE IF o = "ok" /\ Accepts(cmd) THEN "Ok"
                       ELSE "QueryError"]]

\* execute_command that keeps the connection when the query fails.
execute_command_leak(st, cmd, o) ==
    [res |-> IF o = "conn" THEN ConnectionError
             ELSE IF o = "ok" /\ Accepts(cmd) THEN OkR(Reply(st, cmd))
             ELSE QueryError,
     store |-> IF o \in {"ok", "lost"} /\ Accepts(cmd) THEN Apply(st, cmd) ELSE st,
     sent |-> IF o = "conn" THEN <<>> ELSE <<cmd.kind>>,
     exec |-> [command |-> cmd.kind,
               connection |-> IF o = "conn" THEN "none"
                              ELSE IF o = "ok" /\ Accepts(cmd) THEN "released"
                              ELSE "open",
               sent |-> IF o = "conn" THEN 0 ELSE 1,
               res |-> IF o = "conn" THEN "ConnectionError"
                       ELSE IF o = "ok" /\ Accepts(cmd) THEN "Ok"
                       ELSE "QueryError"]]

\* execute_command that reports a failed query as a failed connection.
execute_command_conn(st, cmd, o) ==
    [res |-> IF o = "ok" /\ Accepts(cmd) THEN OkR(Reply(st, cmd))
             ELSE ConnectionError,
     store |-> IF Applied(cmd, o) THEN Apply(st, cmd) ELSE st,
     sent |-> IF o = "conn" THEN <<>> ELSE <<cmd.kind>>,
     exec |-> Exec(cmd, o, IF o = "ok" /\ Accepts(cmd) THEN "Ok" ELSE "ConnectionError")]

\* execute_command(command): the result, the store afterwards and whether
\* the command went out.
execute_command(st, cmd, o) ==
    [res |-> IF o = "conn" THEN ConnectionError
             ELSE IF o = "ok" /\ Accepts(cmd) THEN OkR(Reply(st, cmd))
             ELSE QueryError,
     store |-> IF Applied(cmd, o) THEN Apply(st, cmd) ELSE st,
     sent |-> IF o = "conn" THEN <<>> ELSE <<cmd.kind>>,
     exec |-> Exec(cmd, o, IF o = "conn" THEN "ConnectionError"
                           ELSE IF o = "ok" /\ Accepts(cmd) THEN "Ok"
                           ELSE "QueryError")]

\* _get that reads the key "bad" whatever key it is given.
_get_wrong_key(st, table, k, o) ==
    LET x == execute_command(st, Command_get("bad"), o)
        data == x.res.val
        value == IF data = None THEN Ok(None)
                 ELSE LET d == FromJson(table, data[1])
                      IN IF d.ok THEN Ok(Some(d.val)) ELSE Err
    IN IF x.res.kind # "Ok" THEN x
       ELSE IF value.ok THEN [x EXCEPT !.res = OkR(value.val)]
       ELSE [x EXCEPT !.res = DeserializeError(k)]

\* _get that takes the string out of the store as it reads it.
_get_take(st, table, k, o) ==
    LET x == execute_command(st, Command_get(k), o)
        data == x.res.val
        value == IF data = None THEN Ok(None)
                 ELSE LET d == FromJson(table, data[1])
                      IN IF d.ok THEN Ok(Some(d.val)) ELSE Err
    IN IF x.res.kind # "Ok" THEN x
       ELSE IF value.ok
       THEN [x EXCEPT !.res = OkR(value.val), !.store = CommandDelete(st, k)]
       ELSE [x EXCEPT !.res = DeserializeError(k)]

\* _get that takes every reply for an absent key.
_get_absent(st, table, k, o) ==
    LET x == execute_command(st, Command_get(k), o)
    IN IF x.res.kind # "Ok" THEN x ELSE [x EXCEPT !.res = OkR(None)]

\* _get that takes a string it cannot decode for an absent key.
_get_lenient(st, table, k, o) ==
    LET x == execute_command(st, Command_get(k), o)
        data == x.res.val
        value == IF data = None THEN None
                 ELSE LET d == FromJson(table, data[1])
                      IN IF d.ok THEN Some(d.val) ELSE None
    IN IF x.res.kind # "Ok" THEN x ELSE [x EXCEPT !.res = OkR(value)]

\* _get(key): the get command, then the decoding of the string it returned.
_get(st, table, k, o) ==
    LET x == execute_command(st, Command_get(k), o)
        data == x.res.val
        value == IF data = None THEN Ok(None)
                 ELSE LET d == FromJson(table, data[1])
                      IN IF d.ok THEN Ok(Some(d.val)) ELSE Err
    IN IF x.res.kind # "Ok" THEN x
       ELSE IF value.ok THEN [x EXCEPT !.res = OkR(value.val)]
       ELSE [x EXCEPT !.res = DeserializeError(k)]

\* A conversion that gives every key the same string.
to_string_const(k) == "key"

\* key.to_string() of a String key.
to_string(k) == k

\* insert that adds a second to the configured TTL.
insert_command_longer(k, s, slf) == Command_set(k, s, slf.ttl + 1000)

\* insert: `let ttl = self.ttl; let command = Command::set(key, value, ttl)`
insert_command(k, s, slf) == Command_set(k, s, slf.ttl)

\* insert that forgets the previous value.
insert_return_none(prev, r) == IF r.kind = "Ok" THEN OkR(None) ELSE r

\* insert: `self.execute_command(command)?; Ok(previous)`
insert_return(prev, r) == IF r.kind = "Ok" THEN OkR(prev) ELSE r

\* remove that sends a second get in place of the delete.
remove_command_get(k) == Command_get(k)

\* remove: `let command = Command::delete(key)`
remove_command(k) == Command_delete(k)

\* remove that returns None whatever it read.
remove_return_none(prev, r) == IF r.kind = "Ok" THEN OkR(<<>>) ELSE r

\* remove: `self.execute_command(command)?; Ok(previous)`
remove_return(prev, r) == IF r.kind = "Ok" THEN OkR(prev) ELSE r

\* ttl: `let seconds: u64 = self.execute_command(command)?;
\*       Ok(Duration::from_secs(seconds))`; c is how the reply converts.
ttl_return(r, c) ==
    IF r.kind # "Ok" THEN r
    ELSE IF c.ok THEN OkR(from_secs(c.val))
    ELSE QueryError

\* ----------------------------------------------------------------- actions
\* A constructor that connects: it fails when the store cannot be reached.
New_connects ==
    /\ self.client # "open"
    /\ \E url \in Urls, d \in Durations :
          self' = IF ClientOpen(url) /\ server = "up"
                  THEN [client |-> "open", ttl |-> d, url |-> url]
                  ELSE [client |-> "error", ttl |-> 0, url |-> url]
    /\ UNCHANGED <<server, store, pc, call, previous, result, sent, seen, changed, execs, last>>

\* RedisDatabase::new(url, ttl): Err(ConnectionError) when the URL does not
\* parse, and then there is no adapter.
New ==
    /\ self.client # "open"
    /\ \E url \in Urls, d \in Durations :
          self' = IF ClientOpen(url) THEN [client |-> "open", ttl |-> d, url |-> url]
                  ELSE [client |-> "error", ttl |-> 0, url |-> url]
    /\ UNCHANGED <<server, store, pc, call, previous, result, sent, seen, changed, execs, last>>

\* A caller starts a call: the adapter exists and the caller is idle.
Starts(p, op, table, k, v) ==
    /\ self.client = "open"
    /\ pc[p] = "idle"
    /\ call' = [call EXCEPT ![p] = [op |-> op, table |-> table, key |-> k, value |-> v]]
    /\ seen' = [seen EXCEPT ![p] = last[k]]

\* The call of p returns r.
Returns(p, r) ==
    /\ pc' = [pc EXCEPT ![p] = "done"]
    /\ result' = [result EXCEPT ![p] = r]

\* The command of the call of p has run as x says.
Ran(p, x) ==
    /\ sent' = [sent EXCEPT ![p] = @ \o x.sent]
    /\ store' = x.store
    /\ changed' = [changed EXCEPT ![p] = @ \/ x.store # store]
    /\ execs' = [execs EXCEPT ![p] = Append(@, x.exec)]

\* StorageRead::get
get(p) ==
    \E table \in Tables, k \in Keys, o \in Possible(server) :
        LET x == _get(store, table, to_string(k), o)
        IN /\ Starts(p, "get", table, k, Foo(0))
           /\ Returns(p, x.res)
           /\ Ran(p, x)
           /\ UNCHANGED <<server, self, previous, last>>

\* exists that reads the key before it asks.
exists_with_read(p) ==
    \E table \in Tables, k \in Keys, o \in Possible(server) :
        LET r == _get(store, table, to_string(k), o)
            x == execute_command(r.store, Command_exists(to_string(k)), o)
        IN /\ Starts(p, "exists", table, k, Foo(0))
           /\ Returns(p, x.res)
           /\ sent' = [sent EXCEPT ![p] = r.sent \o x.sent]
           /\ store' = x.store
           /\ changed' = [changed EXCEPT ![p] = x.store # store]
           /\ execs' = [execs EXCEPT ![p] = <<r.exec, x.exec>>]
           /\ UNCHANGED <<server, self, previous, last>>

\* StorageRead::exists
exists(p) ==
    \E table \in Tables, k \in Keys, o \in Possible(server) :
        LET x == execute_command(store, Command_exists(to_string(k)), o)
        IN /\ Starts(p, "exists", table, k, Foo(0))
           /\ Returns(p, x.res)
           /\ Ran(p, x)
           /\ UNCHANGED <<server, self, previous, last>>

\* StorageTemp::ttl
ttl(p) ==
    \E table \in Tables, k \in Keys, o \in Possible(server) :
        LET x == execute_command(store, Command_ttl(to_string(k)), o)
        IN \E c \in (IF x.res.kind = "Ok" THEN FromRedisValueU64(x.res.val)
                     ELSE {Err}) :
              /\ Starts(p, "ttl", table, k, Foo(0))
              /\ Returns(p, ttl_return(x.res, c))
              /\ Ran(p, x)
              /\ UNCHANGED <<server, self, previous, last>>

\* StorageWrite::insert, `let previous = self._get(key.clone())?`, for a
\* table of tables and a key of keys.
insert_get_of(p, tables, keys) ==
    \E table \in tables, k \in keys, o \in Possible(server) :
      \E v \in ValuesOf(table) :
        LET x == _get(store, table, to_string(k), o)
        IN /\ Starts(p, "insert", table, k, v)
           /\ IF x.res.kind = "Ok"
              THEN /\ pc' = [pc EXCEPT ![p] = "insert_set"]
                   /\ previous' = [previous EXCEPT ![p] = x.res.val]
                   /\ UNCHANGED result
              ELSE /\ Returns(p, x.res)
                   /\ UNCHANGED previous
           /\ Ran(p, x)
           /\ UNCHANGED <<server, self, last>>

insert_get(p) == insert_get_of(p, Tables, Keys)

\* StorageWrite::insert, from serde_json::to_string to the end.
insert_set(p) ==
    /\ pc[p] = "insert_set"
    /\ LET c == call[p]
           value == ToJson(c.value)
       IN IF ~value.ok
          THEN /\ Returns(p, SerializeError(to_string(c.key)))
               /\ UNCHANGED <<server, self, store, call, previous, sent, seen, changed, execs, last>>
          ELSE \E o \in Possible(server) :
                 LET cmd == insert_command(to_string(c.key), value.val, self)
                     x == execute_command(store, cmd, o)
                     r == insert_return(previous[p], x.res)
                 IN /\ Returns(p, r)
                    /\ Ran(p, x)
                    /\ last' = IF r.kind = "Ok"
                               THEN [last EXCEPT ![c.key] = Inserted(c.table, c.value)]
                               ELSE IF x.store # store
                               THEN [last EXCEPT ![c.key] = Unknown]
                               ELSE last
                    /\ UNCHANGED <<server, self, call, previous, seen>>

\* StorageWrite::remove, `let previous = self._get(key.clone())?`
remove_get(p) ==
    \E table \in Tables, k \in Keys, o \in Possible(server) :
        LET x == _get(store, table, to_string(k), o)
        IN /\ Starts(p, "remove", table, k, Foo(0))
           /\ IF x.res.kind = "Ok"
              THEN /\ pc' = [pc EXCEPT ![p] = "remove_delete"]
                   /\ previous' = [previous EXCEPT ![p] = x.res.val]
                   /\ UNCHANGED result
              ELSE /\ Returns(p, x.res)
                   /\ UNCHANGED previous
           /\ Ran(p, x)
           /\ UNCHANGED <<server, self, last>>

\* StorageWrite::remove, the delete command and the return.
remove_delete(p) ==
    /\ pc[p] = "remove_delete"
    /\ \E o \in Possible(server) :
         LET c == call[p]
             x == execute_command(store, remove_command(to_string(c.key)), o)
             r == remove_return(previous[p], x.res)
         IN /\ Returns(p, r)
            /\ Ran(p, x)
            /\ last' = IF r.kind = "Ok"
                       THEN [last EXCEPT ![c.key] = Removed]
                       ELSE IF x.store # store
                       THEN [last EXCEPT ![c.key] = Unknown]
                       ELSE last
            /\ UNCHANGED <<server, self, call, previous, seen>>

\* The caller takes the result; its next call starts from scratch.
Return(p) ==
    /\ pc[p] = "done"
    /\ pc' = [pc EXCEPT ![p] = "idle"]
    /\ call' = [call EXCEPT ![p] = NoCall]
    /\ previous' = [previous EXCEPT ![p] = None]
    /\ result' = [result EXCEPT ![p] = NoResult]
    /\ sent' = [sent EXCEPT ![p] = <<>>]
    /\ seen' = [seen EXCEPT ![p] = Never]
    /\ changed' = [changed EXCEPT ![p] = FALSE]
    /\ execs' = [execs EXCEPT ![p] = <<>>]
    /\ UNCHANGED <<server, self, store, last>>

\* Time passes: every remaining lifetime shrinks by one tick and the store
\* drops the keys whose lifetime is over.  A caller takes a result without
\* delay.
Tick ==
    /\ \E k \in Keys : store[k].present
    /\ \A p \in Callers : pc[p] # "done"
    /\ store' = [k \in Keys |->
                    IF store[k].present /\ store[k].exp > MsPerTick
                    THEN [store[k] EXCEPT !.exp = @ - MsPerTick]
                    ELSE Absent]
    /\ last' = [k \in Keys |->
                    IF last[k].kind \notin {"insert", "expired"} THEN last[k]
                    ELSE [last[k] EXCEPT
                            !.kind = IF store'[k].present THEN @ ELSE "expired",
                            !.age = IF @ + MsPerTick > self.ttl THEN self.ttl
                                    ELSE @ + MsPerTick]]
    /\ UNCHANGED <<server, self, pc, call, previous, result, sent, seen, changed, execs>>

\* The calls of one caller follow one another (insert and remove take
\* `&mut self`).
Step(p) ==
    \/ get(p)
    \/ exists(p)
    \/ ttl(p)
    \/ insert_get(p)
    \/ insert_set(p)
    \/ remove_get(p)
    \/ remove_delete(p)
    \/ Return(p)

Next ==
    \/ New
    \/ Step("c1")
    \/ Tick

Spec == Init /\ [][Next]_vars

\* ------------------------------------------------- the store out of reach
\* The adapter is constructed while the store cannot be reached; the store
\* may come up later.
InitDown ==
    /\ server = "down"
    /\ self = [client |-> "none", ttl |-> 0, url |-> ""]
    /\ store = [k \in Keys |-> Absent]
    /\ pc = [p \in Callers |-> "idle"]
    /\ call = [p \in Callers |-> NoCall]
    /\ previous = [p \in Callers |-> None]
    /\ result = [p \in Callers |-> NoResult]
    /\ sent = [p \in Callers |-> <<>>]
    /\ seen = [p \in Callers |-> Never]
    /\ changed = [p \in Callers |-> FALSE]
    /\ execs = [p \in Callers |-> <<>>]
    /\ last = [k \in Keys |-> Never]

ServerUp ==
    /\ server = "down"
    /\ server' = "up"
    /\ UNCHANGED <<self, store, pc, call, previous, result, sent, seen, changed, execs, last>>

NextDown ==
    \/ ServerUp
    \/ New
    \/ Step("c1")
    \/ Tick

SpecDown == InitDown /\ [][NextDown]_vars

\* ------------------------------------------------------ concurrent callers
\* Two callers hold a clone of the adapter each and insert values of
\* FooTable under the same key at the same time: their inserts interleave
\* command by command, and time passes.
Writes(p) ==
    \/ insert_get_of(p, {"FooTable"}, {"key"})
    \/ insert_set(p)
    \/ Return(p)

\* The adapter of the tests: new(URL, Duration::from_secs(1)).
InitConc ==
    /\ server = "up"
    /\ self = [client |-> "open", ttl |-> from_secs(1),
               url |-> "redis://:password@localhost:6379"]
    /\ store = [k \in Keys |-> Absent]
    /\ pc = [p \in Callers |-> "idle"]
    /\ call = [p \in Callers |-> NoCall]
    /\ previous = [p \in Callers |-> None]
    /\ result = [p \in Callers |-> NoResult]
    /\ sent = [p \in Callers |-> <<>>]
    /\ seen = [p \in Callers |-> Never]
    /\ changed = [p \in Callers |-> FALSE]
    /\ execs = [p \in Callers |-> <<>>]
    /\ last = [k \in Keys |-> Never]

NextConc ==
    \/ Writes("c1")
    \/ Writes("c2")
    \/ Tick

SpecConc == InitConc /\ [][NextConc]_vars

\* ------------------------------------------------------------------ claims
\* The errors of a failed connection or a failed command.
Faults == {"ConnectionError", "QueryError"}
\* The call of p has finished and was an op.
Done(p, op) == pc[p] = "done" /\ call[p].op = op
\* Nothing is stored under the key the call of p started on.
SeenAbsent(p) == seen[p].kind \in {"never", "removed", "expired"}
\* The call of p started on a key that holds what insert(table, v) of the
\* call's own table stored.
SeenInserted(p) == seen[p].kind = "insert" /\ seen[p].table = call[p].table

\* C1: a get(k) that follows a successful insert(k, v) of the same table
\* returns Some(v) with v the value that was inserted (or fails on the
\* connection or the command, never anything else).
C1_RoundTrip ==
    \A p \in Callers :
        Done(p, "get") /\ SeenInserted(p)
            => \/ result[p].kind \in Faults
               \/ result[p] = OkR(Some(seen[p].value))

C1_Witness ==
    \E p \in Callers :
        /\ Done(p, "get") /\ SeenInserted(p)
        /\ seen[p].value = Foo(42)
        /\ result[p] = OkR(Some(Foo(42)))

\* C2: an insert(k, v) that succeeds returns None when nothing was stored
\* under k and Some(v1) when the preceding write to k was insert(k, v1).
C2_InsertReturnsPrevious ==
    \A p \in Callers :
        Done(p, "insert") /\ result[p].kind = "Ok"
            => /\ SeenAbsent(p) => result[p].val = None
               /\ SeenInserted(p) => result[p].val = Some(seen[p].value)

C2_Witness ==
    \E p \in Callers :
        /\ Done(p, "insert") /\ SeenInserted(p)
        /\ seen[p].value = Foo(42) /\ call[p].value = Foo(69)
        /\ result[p] = OkR(Some(Foo(42)))

\* C3: remove(k) returns Some(v) after insert(k, v), and None without an
\* error of its own when k is absent, as after a remove(k).
C3_RemoveReturnsPrevious ==
    \A p \in Callers :
        Done(p, "remove")
            => /\ SeenAbsent(p) =>
                    result[p].kind \in Faults \/ result[p] = OkR(None)
               /\ SeenInserted(p) =>
                    result[p].kind \in Faults \/ result[p] = OkR(Some(seen[p].value))

C3_Witness ==
    \E p \in Callers :
        /\ Done(p, "remove") /\ SeenInserted(p)
        /\ result[p] = OkR(Some(Foo(42)))

\* C4: after a successful remove(k), get(k) returns None and exists(k)
\* returns false.
C4_DeletionEffect ==
    \A p \in Callers :
        pc[p] = "done" /\ seen[p].kind = "removed"
            => /\ call[p].op = "get" =>
                    result[p].kind \in Faults \/ result[p] = OkR(None)
               /\ call[p].op = "exists" =>
                    result[p].kind \in Faults \/ result[p] = OkR(FALSE)

C4_Witness ==
    \E p \in Callers :
        /\ Done(p, "exists") /\ seen[p].kind = "removed"
        /\ result[p] = OkR(FALSE)

\* C5: exists(k) is true when a value is stored under k and false for a key
\* never written or already removed, whatever the other keys hold; get(k) of
\* such an absent key returns None.
C5_Exists ==
    \A p \in Callers :
        /\ Done(p, "exists") /\ seen[p].kind = "insert" =>
              result[p].kind \in Faults \/ result[p] = OkR(TRUE)
        /\ Done(p, "exists") /\ SeenAbsent(p) =>
              result[p].kind \in Faults \/ result[p] = OkR(FALSE)
        /\ Done(p, "get") /\ SeenAbsent(p) =>
              result[p].kind \in Faults \/ result[p] = OkR(None)

C5_Witness ==
    \E p \in Callers :
        /\ Done(p, "exists") /\ call[p].key = "bad" /\ seen[p].kind = "never"
        /\ last["key"].kind = "insert" /\ store["key"].present
        /\ result[p] = OkR(FALSE)

\* A u64 number of milliseconds a is at most b (b is not negative; a
\* negative a stands for a number beyond 2^63).
DurationLe(a, b) == a >= 0 /\ a <= b

\* C6 as stated: after insert(k, v) with configured TTL T, ttl(k) returns a
\* duration that is at most T and greater than 0, provided less than T has
\* elapsed since the insert.
C6_Original ==
    \A p \in Callers :
        Done(p, "ttl") /\ seen[p].kind \in {"insert", "expired"}
                       /\ seen[p].age < self.ttl
            => \/ result[p].kind \in Faults
               \/ /\ result[p].kind = "Ok"
                  /\ result[p].val # 0
                  /\ DurationLe(result[p].val, self.ttl)

\* C6 as amended: while what insert(k, v) stored is still there, ttl(k)
\* returns a duration that is at most T, and greater than 0 provided the time
\* elapsed since the insert is at most T rounded down to whole seconds, less
\* half a second.
C6_TtlPropagation ==
    \A p \in Callers :
        Done(p, "ttl") /\ seen[p].kind = "insert"
            => \/ result[p].kind \in Faults
               \/ /\ result[p].kind = "Ok"
                  /\ DurationLe(result[p].val, self.ttl)
                  /\ seen[p].age + 500 <= 1000 * (self.ttl \div 1000)
                        => result[p].val # 0

C6_Witness ==
    \E p \in Callers :
        /\ Done(p, "ttl") /\ seen[p].kind = "insert"
        /\ seen[p].age > 0 /\ seen[p].age + 500 <= 1000 * (self.ttl \div 1000)
        /\ result[p] = OkR(1000)

\* C7 as stated: ttl(k) issued immediately after a successful insert(k, v)
\* returns the configured TTL T.
C7_Original ==
    \A p \in Callers :
        Done(p, "ttl") /\ seen[p].kind = "insert" /\ seen[p].age = 0
                       /\ result[p].kind = "Ok"
            => result[p].val = self.ttl

\* C7 as amended: when T is a whole number of seconds, every successful
\* insert(k, v), creating or overwriting, leaves k with a remaining lifetime
\* of exactly T, and ttl(k) issued immediately after it returns T.
C7_InsertSetsTtl ==
    \A p \in Callers :
        self.ttl % 1000 = 0
            => /\ Done(p, "insert") /\ result[p].kind = "Ok" =>
                    store[call[p].key] = Entry(ToJson(call[p].value).val, self.ttl)
               /\ Done(p, "ttl") /\ seen[p].kind = "insert" /\ seen[p].age = 0
                                 /\ result[p].kind = "Ok" =>
                    result[p].val = self.ttl

C7_Witness ==
    \E p \in Callers :
        /\ self.ttl % 1000 = 0
        /\ Done(p, "ttl") /\ seen[p].kind = "insert" /\ seen[p].age = 0
        /\ result[p] = OkR(self.ttl)

\* The values that do not encode: the non-empty maps of MapTable.
Unencodable(v) == v.type = "Map" /\ v.bar # 0

\* C8 as stated (failures of the connection and of the command aside): when
\* the value does not encode, insert(k, v) returns SerializeError carrying k,
\* sends no set command and leaves the store unchanged.
C8_Original ==
    \A p \in Callers :
        Done(p, "insert") /\ Unencodable(call[p].value)
            => \/ result[p].kind \in Faults
               \/ /\ result[p] = SerializeError(call[p].key)
                  /\ \A i \in 1..Len(sent[p]) : sent[p][i] # "set"
                  /\ ~changed[p]

\* C8 as amended: when the value does not encode, insert(k, v) fails, sends
\* no set command and leaves the store unchanged; it returns SerializeError
\* carrying k when its read of k succeeds, and the error of that read
\* otherwise: DeserializeError carrying k when the string under k does not
\* decode, or the error of the connection or the command.
C8_SerializeIsolation ==
    \A p \in Callers :
        Done(p, "insert") /\ Unencodable(call[p].value)
            => /\ \/ result[p].kind \in Faults
                  \/ result[p] = SerializeError(call[p].key)
                  \/ /\ result[p] = DeserializeError(call[p].key)
                     /\ ~SeenAbsent(p) /\ ~SeenInserted(p)
               /\ SeenAbsent(p) \/ SeenInserted(p) =>
                     result[p].kind \in Faults
                        \/ result[p] = SerializeError(call[p].key)
               /\ \A i \in 1..Len(sent[p]) : sent[p][i] # "set"
               /\ ~changed[p]

C8_Witness ==
    \E p \in Callers :
        /\ Done(p, "insert") /\ Unencodable(call[p].value)
        /\ result[p] = SerializeError(call[p].key)
        /\ store[call[p].key].present /\ sent[p] = <<"get">>

\* C9: when the string stored under k does not decode into the type asked
\* for, get(k) returns DeserializeError carrying k (or fails on the
\* connection or the command), never None and never a value, and leaves the
\* store as it is.
C9_DeserializeError ==
    \A p \in Callers :
        Done(p, "get") /\ seen[p].kind = "insert" /\ seen[p].table # call[p].table
            => /\ result[p].kind \in Faults
                    \/ result[p] = DeserializeError(call[p].key)
               /\ ~changed[p]

C9_Witness ==
    \E p \in Callers :
        /\ Done(p, "get") /\ seen[p].kind = "insert"
        /\ result[p] = DeserializeError(call[p].key)
        /\ store[call[p].key].present

RedisErrors == {"ConnectionError", "QueryError", "SerializeError", "DeserializeError"}

\* C10 as stated: every operation ends with a result or with one of the four
\* errors, and an insert or remove that ends with an error has not changed
\* the store.
C10_Original ==
    \A p \in Callers :
        pc[p] = "done"
            => /\ result[p].kind \in {"Ok"} \cup RedisErrors
               /\ call[p].op \in {"insert", "remove"} /\ result[p].kind # "Ok"
                     => ~changed[p]

\* C10 as amended: every operation ends with a result or with one of the four
\* errors; an insert or remove that ends with ConnectionError, SerializeError
\* or DeserializeError, or with a QueryError of its read, has not changed the
\* store; one that ends with an error and has changed the store ends with
\* the QueryError of its set or delete command, which the store executed.
C10_NoPartialSuccess ==
    \A p \in Callers :
        pc[p] = "done"
            => /\ result[p].kind \in {"Ok"} \cup RedisErrors
               /\ call[p].op \in {"insert", "remove"} /\ result[p].kind # "Ok"
                                                      /\ changed[p]
                     => /\ result[p].kind = "QueryError"
                        /\ sent[p] \in {<<"get", "set">>, <<"get", "delete">>}

C10_Witness ==
    \E p \in Callers :
        /\ Done(p, "insert") /\ result[p].kind = "ConnectionError"
        /\ sent[p] = <<"get">> /\ ~changed[p]
        /\ store[call[p].key].present

\* The URLs that do not parse into a client handle.
Unparsable == {"localhost"}

\* C11: new() fails (with ConnectionError) exactly when the URL does not
\* parse, whether or not the store can be reached; an operation attempted
\* while the store cannot be reached sends nothing and returns
\* ConnectionError.
C11_Construction ==
    /\ [](self.client # "none" =>
            (self.client = "error" <=> self.url \in Unparsable))
    /\ [][\A p \in Callers :
            server = "down" /\ pc[p] = "idle" /\ pc'[p] # "idle"
                => /\ pc'[p] = "done"
                   /\ result'[p] = ConnectionError
                   /\ sent'[p] = <<>>]_vars

C11_Witness ==
    \E p \in Callers :
        /\ server = "down" /\ self.client = "open"
        /\ pc[p] = "done" /\ result[p] = ConnectionError

\* What the adapter last stored under k, as an Option, when that is known.
StoredValue(k) == IF last[k].kind = "insert" THEN Some(last[k].value) ELSE None

\* C12: each of two concurrent inserts reads and then writes on its own: the
\* previous value it returns is the value stored under the key at the
\* instant of its own read, whatever the other insert has written since.
\* (C12_Witness is the interleaving in which both inserts return the same
\* earlier value and neither returns the value of the other.)
C12_IndependentReads ==
    [][\A p \in Callers :
          /\ pc[p] = "idle" /\ pc'[p] = "insert_set" /\ last[call'[p].key].kind # "unknown"
                => previous'[p] = StoredValue(call'[p].key)
          /\ pc[p] = "insert_set" /\ pc'[p] = "done" /\ result'[p].kind = "Ok"
                => result'[p].val = previous[p]]_vars

C12_Witness ==
    /\ \A p \in Callers :
          /\ Done(p, "insert") /\ call[p].key = "key"
          /\ call[p].value = Foo(69)
          /\ result[p] = OkR(Some(Foo(42)))
    /\ store["key"].val = ToJson(Foo(69)).val

\* The call of p started on a key that holds a string of another table.
SeenUndecodable(p) == seen[p].kind = "insert" /\ seen[p].table # call[p].table

\* C13: get, exists and ttl send their one command and nothing before it;
\* insert sends get and then, only when the read succeeded and the value
\* encoded, one set that carries the configured TTL; remove sends get and
\* then, only when the read succeeded, one delete.
C13_CommandOrdering ==
    /\ [](\A p \in Callers :
            pc[p] = "done" =>
              /\ call[p].op \in {"get", "exists", "ttl"} =>
                    sent[p] = IF result[p].kind = "ConnectionError" /\ execs[p][1].connection = "none"
                              THEN <<>> ELSE <<call[p].op>>
              /\ call[p].op = "insert" =>
                    /\ sent[p] \in {<<>>, <<"get">>, <<"get", "set">>}
                    /\ result[p].kind = "Ok" => sent[p] = <<"get", "set">>
                    /\ sent[p] = <<"get", "set">> =>
                          /\ execs[p][1].res = "Ok"
                          /\ ~SeenUndecodable(p)
                          /\ ~Unencodable(call[p].value)
              /\ call[p].op = "remove" =>
                    /\ sent[p] \in {<<>>, <<"get">>, <<"get", "delete">>}
                    /\ result[p].kind = "Ok" => sent[p] = <<"get", "delete">>
                    /\ sent[p] = <<"get", "delete">> =>
                          /\ execs[p][1].res = "Ok"
                          /\ ~SeenUndecodable(p))
    /\ [][\A p \in Callers :
            pc[p] = "insert_set" /\ sent'[p] = <<"get", "set">> /\ store' # store
                => store'[call[p].key].exp = 1000 * (self.ttl \div 1000)]_vars

C13_Witness ==
    \E p \in Callers :
        /\ Done(p, "insert") /\ result[p].kind = "Ok"
        /\ sent[p] = <<"get", "set">>

\* C14: a failed get_connection or a failed command ends the operation at
\* once with ConnectionError or QueryError: the failed execute_command is the
\* last one of the call, no command is sent twice, and no command follows it.
C14_NoRetry ==
    \A p \in Callers :
        /\ \A i \in 1..Len(execs[p]) :
              /\ execs[p][i].sent <= 1
              /\ execs[p][i].connection = "none" =>
                    execs[p][i].sent = 0 /\ execs[p][i].res = "ConnectionError"
              /\ execs[p][i].res # "Ok" =>
                    /\ i = Len(execs[p])
                    /\ pc[p] = "done"
                    /\ result[p].kind = execs[p][i].res
        /\ Len(sent[p]) <= Len(execs[p])
        /\ Len(execs[p]) <= 2

C14_Witness ==
    \E p \in Callers :
        /\ Done(p, "insert") /\ result[p] = QueryError
        /\ sent[p] = <<"get">> /\ Len(execs[p]) = 1
        /\ execs[p][1].res = "QueryError"

C16_Original ==
    \A p \in Callers :
        Done(p, "ttl") /\ SeenAbsent(p) /\ execs[p][1].res = "Ok"
            => /\ result[p].kind = "Ok"
               /\ result[p].val >= 0
               /\ result[p].val = from_secs(-2)

\* C17: in every state, between the read and the write of concurrent
\* inserts too, what the adapter has stored has a remaining lifetime, and
\* that lifetime is at most the configured TTL.
C17_AlwaysExpiring ==
    \A k \in Keys :
        store[k].present => store[k].exp > 0 /\ store[k].exp <= self.ttl

C17_Witness ==
    /\ \A p \in Callers : pc[p] = "insert_set"
    /\ store["key"].present /\ store["key"].exp < self.ttl

\* C18: when the string under k does not decode into the owned value type of
\* the table, insert(k, v) and remove(k) fail with DeserializeError from
\* their read (or on the connection or the command), send no set and no
\* delete, and leave the string where it is.
C18_UndecodableStays ==
    \A p \in Callers :
        pc[p] = "done" /\ call[p].op \in {"insert", "remove"} /\ SeenUndecodable(p)
            => /\ result[p].kind \in Faults
                    \/ result[p] = DeserializeError(call[p].key)
               /\ sent[p] \in {<<>>, <<"get">>}
               /\ ~changed[p]
               /\ store[call[p].key].present

C18_Witness ==
    \E p \in Callers :
        /\ Done(p, "remove") /\ SeenUndecodable(p)
        /\ result[p] = DeserializeError(call[p].key)
        /\ store[call[p].key].present

\* C19: get, exists and ttl leave the store as it is, contents and remaining
\* lifetimes, whether they succeed or fail; and no operation changes the
\* configured TTL of the adapter.
C19_ReadsChangeNothing ==
    [][/\ \A p \in Callers :
             pc[p] = "idle" /\ call'[p].op \in {"get", "exists", "ttl"}
                => store' = store /\ last' = last
       /\ self.client = "open" => self' = self]_vars

C19_Witness ==
    \E p \in Callers :
        /\ Done(p, "get") /\ result[p] = OkR(Some(Foo(42)))
        /\ store[call[p].key].present /\ store[call[p].key].exp < self.ttl
        /\ ~changed[p]

====
